---- MODULE Spec2Model ----
(***************************************************************************)
(* ExpenseService (src/app/services/expense.service.ts): the in-memory     *)
(* list of expense records, the receipt pictures on the Filesystem and the *)
(* Record Store (StorageService), with every async method cut at its       *)
(* awaits.                                                                 *)
(*                                                                         *)
(* Strings are sequences of string tokens, so that concatenation is \o and *)
(* '<id>.jpeg' is <<ToString(id), ".jpeg">>.  null/undefined/'' of a       *)
(* string field is the empty sequence; an undefined id is NoId.            *)
(* A record is an object reference of Obj; its fields live in obj.         *)
(***************************************************************************)
EXTENDS Integers, Sequences, FiniteSets, TLC

\* ------------------------------------------------------------- bounds
\* Expense objects, clock readings, calls made by the page, rejected awaits
MaxRecords == 3
MaxClock == 2
MaxCalls == 5
MaxRejects == 1

Obj == 1..MaxRecords
Photos == {"p1"}
Platforms == {"web", "android"}

NoId == 0
Null == <<>>

\* platform   Capacitor.getPlatform()
\* clock      the last reading of new Date().getTime()
\* obj        the fields of every Expense object (receipt fields flattened)
\* expenses   this.expenses
\* store      the list the Record Store holds
\* fs         the files of Directory.Data
\* ld, cu, rm the loadSaved, createUpdateExpense and removeExpense call in
\*            progress: where it is suspended (pc), its locals, and what it has
\*            done so far (the values at its call, the calls it has issued)
\* calls      the calls the page has made
\* rejects    the awaited calls that have been rejected
VARIABLES platform, clock, obj, expenses, store, fs, ld, cu, rm, calls, rejects

vars == <<platform, clock, obj, expenses, store, fs, ld, cu, rm, calls, rejects>>

\* ------------------------------------------------------------- values
\* Capacitor.isNativePlatform()
isNativePlatform == platform # "web"

\* expenseId + '.jpeg'
ReceiptName(expenseId) == <<ToString(expenseId), ".jpeg">>

\* savedFile.uri: the uri Filesystem.writeFile returns for a path of Directory.Data
WriteFileUri(path) == <<"file:///data/">> \o path

\* Capacitor.convertFileSrc
convertFileSrc(uri) == <<"http://localhost/_capacitor_file_">> \o uri

\* `data:image/jpeg;base64,${readFile.data}`
DataUrl(data) == <<"data:image/jpeg;base64,">> \o data

\* captureExpenseReceipt: the filepath it returns for photo k
captureExpenseReceipt(k) ==
    IF isNativePlatform THEN <<"/tmp/", k, ".jpg">> ELSE <<"blob:", k>>

\* readAsBase64: file.data on a device, reader.result (a data URL) in the browser
readAsBase64(filepath) ==
    IF isNativePlatform THEN <<"base64(">> \o filepath \o <<")">>
    ELSE <<"data:image/jpeg;base64,", "base64(">> \o filepath \o <<")">>

\* new Date().getTime(): now is what the clock reads at the call
createExpenseId(now) == now

\* A record as the page builds it: no identifier, an empty receipt
NewExpense == [id |-> NoId, tempPath |-> Null, name |-> Null,
               filePath |-> Null, webviewPath |-> Null]

\* ------------------------------------------------------------- list helpers
\* Array.prototype.push, where unshift is meant
Push(list, x) == list \o <<x>>

\* Array.prototype.unshift
Unshift(list, x) == <<x>> \o list

\* splice(position) without its count: everything from position on goes
SpliceToEnd(list, position) ==
    IF position < 0 \/ position >= Len(list) THEN list
    ELSE SubSeq(list, 1, position)

\* slice(position, 1), which leaves the array as it is
SliceNoEffect(list, position) == list

\* Array.prototype.splice(position, 1), position counted from 0
Splice1(list, position) ==
    IF position < 0 \/ position >= Len(list) THEN list
    ELSE SubSeq(list, 1, position) \o SubSeq(list, position + 2, Len(list))

Range(list) == {list[i] : i \in 1..Len(list)}

\* Array.prototype.find over this.expenses: the first match, 0 for undefined
FindFrom(list, id, i) ==
    LET hits == {j \in i..Len(list) : obj[list[j]].id = id}
    IN IF hits = {} THEN 0 ELSE list[CHOOSE j \in hits : \A k \in hits : j <= k]

getExpense(id) == FindFrom(expenses, id, 1)

\* Filesystem: the files of Directory.Data, a set of [path, data] with one
\* entry for a path
FsExists(files, path) == \E f \in files : f.path = path

FsRead(files, path) == (CHOOSE f \in files : f.path = path).data

FsWrite(files, path, data) ==
    {f \in files : f.path # path} \cup {[path |-> path, data |-> data]}

FsDelete(files, path) == {f \in files : f.path # path}

\* The array a pending Record Store call was handed: this.expenses by reference
\* (live), or the contents of an array loadSaved has since replaced.
LiveArg == [live |-> TRUE, val |-> <<>>]
ArgValue(arg) == IF arg.live THEN expenses ELSE arg.val
Freeze(arg) == IF arg.live THEN [live |-> FALSE, val |-> expenses] ELSE arg

\* ------------------------------------------------------------- call frames
IdleLd == [pc |-> "idle", idx |-> 0, cur |-> 0, path |-> Null, nRead |-> 0,
           wv0 |-> <<>>, read0 |-> <<>>, result |-> <<>>]

IdleCu == [pc |-> "idle", e |-> 0, isNewExpense |-> FALSE, expenseId |-> NoId,
           base64Data |-> Null, path |-> Null, uri |-> Null, arg |-> LiveArg,
           list0 |-> <<>>, rec0 |-> NewExpense, nWrite |-> 0, nCreate |-> 0,
           nUpdate |-> 0, at |-> "idle"]

IdleRm == [pc |-> "idle", e |-> 0, position |-> 0, path |-> Null, arg |-> LiveArg,
           list0 |-> <<>>, fs0 |-> {}, nDelete |-> 0, storeDone |-> FALSE,
           at |-> "idle"]

Init ==
    /\ platform \in Platforms
    /\ clock = 1
    /\ obj = [o \in Obj |-> NewExpense]
    /\ expenses = <<>>
    /\ store = <<>>
    /\ fs = {}
    /\ ld = IdleLd
    /\ cu = IdleCu
    /\ rm = IdleRm
    /\ calls = 0
    /\ rejects = 0

\* No call is in progress
AllIdle == ld.pc = "idle" /\ cu.pc = "idle" /\ rm.pc = "idle"

\* The records another call in progress is working on
Busy == {cu.e, rm.e} \ {0}

\* A record the page has not built yet
Pristine(o) == obj[o] = NewExpense /\ o \notin Range(expenses) /\ o \notin Range(store)

\* The page builds its records one after the other
NextNew(o) == Pristine(o) /\ \A q \in Obj : q < o => ~Pristine(q)

\* The records the page can pass to createUpdateExpense: one it has just built,
\* one of the list it displays, or one whose save was rejected before it got
\* its identifier
Passable(o) == NextNew(o) \/ o \in Range(expenses) \/ (~Pristine(o) /\ obj[o].id = NoId)

\* A record that has had an identifier and is in neither list nor store, and in
\* no call in progress, is referenced by nobody: its object is free again
Collect(objs, busy) ==
    [o \in Obj |-> IF /\ objs[o].id # NoId
                      /\ o \notin Range(expenses)
                      /\ o \notin Range(store)
                      /\ o \notin busy
                   THEN NewExpense ELSE objs[o]]

\* ------------------------------------------------------------- createUpdateExpense
\* Line 65 without the record's own identifier: always a fresh one
ExpenseIdFresh(rec, now) == createExpenseId(now)

\* Line 65: expense.id || this.createExpenseId(). Identifiers are clock readings,
\* never 0, so that || tests the same thing as line 64's === undefined.
ExpenseId(rec, now) == IF rec.id # NoId THEN rec.id ELSE createExpenseId(now)

\* Line 68 with the identifier assigned up front
NameReceiptAndId(rec, expenseId) ==
    [rec EXCEPT !.name = ReceiptName(expenseId), !.id = expenseId]

\* Line 68: expense.receipt.name = expenseId + '.jpeg'
NameReceipt(rec, expenseId) == [rec EXCEPT !.name = ReceiptName(expenseId)]

\* savePicture with the browser's display reference taken from the file name
savePictureNameAsWebview(cameraPhoto, uri) ==
    IF isNativePlatform
    THEN [filepath |-> uri, webviewPath |-> convertFileSrc(uri)]
    ELSE [filepath |-> cameraPhoto.name, webviewPath |-> cameraPhoto.name]

\* savePicture's return value once writeFile has resolved with uri
savePicture(cameraPhoto, uri) ==
    IF isNativePlatform
    THEN [filepath |-> uri, webviewPath |-> convertFileSrc(uri)]
    ELSE [filepath |-> cameraPhoto.name, webviewPath |-> cameraPhoto.tempPath]

\* Lines 71-73: the receipt once savePicture has returned
ApplySavedReceipt(rec, savedReceipt) ==
    [rec EXCEPT !.filePath = savedReceipt.filepath,
                !.tempPath = Null,
                !.webviewPath = savedReceipt.webviewPath]

\* Lines 76-83, up to the await of the Record Store call: a new record gets its
\* identifier and is unshifted, then createExpense is called; an existing one
\* goes to updateExpense. frame is the call's frame, rec the record's fields.
Persist(frame, rec) ==
    IF frame.isNewExpense
    THEN /\ obj' = [obj EXCEPT ![frame.e] = [rec EXCEPT !.id = frame.expenseId]]
         /\ expenses' = Unshift(expenses, frame.e)
         /\ cu' = [frame EXCEPT !.pc = "createExpense", !.arg = LiveArg,
                                !.nCreate = @ + 1]
    ELSE /\ obj' = [obj EXCEPT ![frame.e] = rec]
         /\ expenses' = expenses
         /\ cu' = [frame EXCEPT !.pc = "updateExpense", !.arg = LiveArg,
                                !.nUpdate = @ + 1]

\* Lines 63-69 (or 63-79/82 without a pending capture). The page passes record
\* o; tp is the capture it attached to the receipt before the call (Null: none).
CU_Call(o, tp, now) ==
    /\ cu.pc = "idle"
    /\ o \notin Busy
    /\ Passable(o)
    /\ now >= clock
    /\ clock' = IF obj[o].id = NoId THEN now ELSE clock
    /\ LET rec == IF tp = Null THEN obj[o] ELSE [obj[o] EXCEPT !.tempPath = tp]
           isNewExpense == rec.id = NoId
           expenseId == ExpenseId(rec, now)
           frame == [IdleCu EXCEPT !.e = o, !.isNewExpense = isNewExpense,
                                   !.expenseId = expenseId, !.list0 = expenses,
                                   !.rec0 = rec]
       IN IF rec.tempPath # Null
          THEN /\ obj' = [obj EXCEPT ![o] = NameReceipt(rec, expenseId)]
               /\ cu' = [frame EXCEPT !.pc = "readAsBase64"]
               /\ expenses' = expenses
          ELSE Persist(frame, rec)
    /\ UNCHANGED <<platform, store, fs, ld, rm, rejects>>
    /\ calls < MaxCalls
    /\ calls' = calls + 1

\* Lines 106-113: readAsBase64 resolves and Filesystem.writeFile is called
CU_ReadDone ==
    /\ cu.pc = "readAsBase64"
    /\ cu' = [cu EXCEPT !.pc = "writeFile",
                        !.base64Data = readAsBase64(obj[cu.e].tempPath),
                        !.path = obj[cu.e].name,
                        !.nWrite = @ + 1]
    /\ UNCHANGED <<platform, clock, obj, expenses, store, fs, ld, rm, calls, rejects>>

\* Lines 115-131 and 71-83: writeFile resolves, the receipt is updated and the
\* Record Store call is made
CU_WriteDone ==
    /\ cu.pc = "writeFile"
    /\ fs' = FsWrite(fs, cu.path, cu.base64Data)
    /\ LET uri == WriteFileUri(cu.path)
           rec == ApplySavedReceipt(obj[cu.e], savePicture(obj[cu.e], uri))
       IN Persist([cu EXCEPT !.uri = uri], rec)
    /\ UNCHANGED <<platform, clock, store, ld, rm, calls, rejects>>

\* Lines 79/82-85: the Record Store call resolves
CU_StoreDone ==
    /\ cu.pc \in {"createExpense", "updateExpense"}
    /\ store' = ArgValue(cu.arg)
    /\ cu' = [cu EXCEPT !.pc = "returned"]
    /\ UNCHANGED <<platform, clock, obj, expenses, fs, ld, rm, calls, rejects>>

\* An awaited call rejects: the rejection propagates (no try/catch)
CU_Reject ==
    /\ cu.pc \in {"readAsBase64", "writeFile", "createExpense", "updateExpense"}
    /\ cu' = [cu EXCEPT !.pc = "rejected", !.at = cu.pc]
    /\ UNCHANGED <<platform, clock, obj, expenses, store, fs, ld, rm, calls>>
    /\ rejects < MaxRejects
    /\ rejects' = rejects + 1

\* The caller takes the result
CU_Return ==
    /\ cu.pc \in {"returned", "rejected"}
    /\ cu' = IdleCu
    /\ obj' = Collect(obj, {rm.e})
    /\ UNCHANGED <<platform, clock, expenses, store, fs, ld, rm, calls, rejects>>

\* ------------------------------------------------------------- removeExpense
\* deleteFile given the persisted reference for its path
DeleteFilePathFromFilePath(rec) == rec.filePath

\* Lines 95-97: the path deleteFile is given, Null for no call
DeleteFilePath(rec) == rec.name

\* Lines 89-92: the page passes the record at index position (from 0) of the
\* list it displays; the splice, then the Record Store call
RM_Call(position) ==
    /\ rm.pc = "idle"
    /\ position \in 0..(Len(expenses) - 1)
    /\ expenses[position + 1] \notin Busy
    /\ expenses' = Splice1(expenses, position)
    /\ rm' = [IdleRm EXCEPT !.pc = "deleteExpense", !.e = expenses[position + 1],
                            !.position = position, !.list0 = expenses,
                            !.fs0 = fs, !.arg = LiveArg]
    /\ UNCHANGED <<platform, clock, obj, store, fs, ld, cu, rejects>>
    /\ calls < MaxCalls
    /\ calls' = calls + 1

\* Lines 92-100: deleteExpense resolves; with a receipt name, deleteFile is called
RM_StoreDone ==
    /\ rm.pc = "deleteExpense"
    /\ store' = ArgValue(rm.arg)
    /\ rm' = IF DeleteFilePath(obj[rm.e]) # Null
             THEN [rm EXCEPT !.pc = "deleteFile", !.storeDone = TRUE,
                             !.path = DeleteFilePath(obj[rm.e]), !.nDelete = @ + 1]
             ELSE [rm EXCEPT !.pc = "returned", !.storeDone = TRUE]
    /\ UNCHANGED <<platform, clock, obj, expenses, fs, ld, cu, calls, rejects>>

\* Line 96-101: deleteFile resolves; it rejects for a file that does not exist
RM_DeleteFileDone ==
    /\ rm.pc = "deleteFile"
    /\ IF FsExists(fs, rm.path)
       THEN /\ fs' = FsDelete(fs, rm.path)
            /\ rm' = [rm EXCEPT !.pc = "returned"]
       ELSE /\ fs' = fs
            /\ rm' = [rm EXCEPT !.pc = "rejected", !.at = rm.pc]
    /\ UNCHANGED <<platform, clock, obj, expenses, store, ld, cu, calls, rejects>>

\* An awaited call rejects: the rejection propagates (no try/catch)
RM_Reject ==
    /\ rm.pc \in {"deleteExpense", "deleteFile"}
    /\ rm' = [rm EXCEPT !.pc = "rejected", !.at = rm.pc]
    /\ UNCHANGED <<platform, clock, obj, expenses, store, fs, ld, cu, calls>>
    /\ rejects < MaxRejects
    /\ rejects' = rejects + 1

\* The caller takes the result
RM_Return ==
    /\ rm.pc \in {"returned", "rejected"}
    /\ rm' = IdleRm
    /\ obj' = Collect(obj, {cu.e})
    /\ UNCHANGED <<platform, clock, expenses, store, fs, ld, cu, calls, rejects>>

\* ------------------------------------------------------------- loadSaved
\* Line 24 with the platform test the wrong way round
LoadReadsPhotosOnDevice == platform # "web"

\* Line 24: the platform whose pictures are read back as base64
LoadReadsPhotos == platform = "web"

\* Lines 26-28: the array iterator's next index, from i on, of a record with a
\* filePath (0: the loop is over)
NextWithFile(list, objs, i) ==
    LET hits == {j \in i..Len(list) : objs[list[j]].filePath # Null}
    IN IF hits = {} THEN 0 ELSE CHOOSE j \in hits : \A k \in hits : j <= k

\* Lines 26-39: the loop from index i on, up to its next await or the return
LoadLoop(frame, list, objs, i) ==
    LET j == NextWithFile(list, objs, i)
    IN IF j = 0
       THEN [frame EXCEPT !.pc = "returned", !.idx = 0, !.cur = 0, !.path = Null,
                          !.result = list]
       ELSE [frame EXCEPT !.pc = "readFile", !.idx = j, !.cur = list[j],
                          !.path = objs[list[j]].filePath, !.nRead = @ + 1]

\* Line 21
L_Call ==
    /\ ld.pc = "idle"
    /\ ld' = [IdleLd EXCEPT !.pc = "init"]
    /\ UNCHANGED <<platform, clock, obj, expenses, store, fs, cu, rm, rejects>>
    /\ calls < MaxCalls
    /\ calls' = calls + 1

\* Lines 21-22: init resolves and readExpenses is called
L_InitDone ==
    /\ ld.pc = "init"
    /\ ld' = [ld EXCEPT !.pc = "readExpenses"]
    /\ UNCHANGED <<platform, clock, obj, expenses, store, fs, cu, rm, calls, rejects>>

\* Lines 22-39: readExpenses resolves and this.expenses is replaced; the arrays
\* handed to pending Record Store calls are no longer this.expenses
L_ReadDone ==
    /\ ld.pc = "readExpenses"
    /\ expenses' = store
    /\ cu' = [cu EXCEPT !.arg = Freeze(@)]
    /\ rm' = [rm EXCEPT !.arg = Freeze(@)]
    /\ LET frame == [ld EXCEPT !.read0 = store,
                               !.wv0 = [o \in Obj |-> obj[o].webviewPath]]
       IN ld' = IF LoadReadsPhotos
                THEN LoadLoop(frame, store, obj, 1)
                ELSE [frame EXCEPT !.pc = "returned", !.result = store]
    /\ UNCHANGED <<platform, clock, obj, store, fs, calls, rejects>>

\* Lines 29-36: readFile resolves (it rejects for a file that does not exist),
\* the record's webviewPath is rewritten and the loop goes on
L_ReadFileDone ==
    /\ ld.pc = "readFile"
    /\ IF FsExists(fs, ld.path)
       THEN LET objs == [obj EXCEPT ![ld.cur].webviewPath = DataUrl(FsRead(fs, ld.path))]
            IN /\ obj' = objs
               /\ ld' = LoadLoop(ld, expenses, objs, ld.idx + 1)
       ELSE /\ obj' = obj
            /\ ld' = [ld EXCEPT !.pc = "rejected"]
    /\ UNCHANGED <<platform, clock, expenses, store, fs, cu, rm, calls, rejects>>

\* An awaited call rejects: the rejection propagates (no try/catch)
L_Reject ==
    /\ ld.pc \in {"init", "readExpenses", "readFile"}
    /\ ld' = [ld EXCEPT !.pc = "rejected"]
    /\ UNCHANGED <<platform, clock, obj, expenses, store, fs, cu, rm, calls>>
    /\ rejects < MaxRejects
    /\ rejects' = rejects + 1

\* The caller takes the result
L_Return ==
    /\ ld.pc \in {"returned", "rejected"}
    /\ ld' = IdleLd
    /\ obj' = Collect(obj, {cu.e, rm.e})
    /\ UNCHANGED <<platform, clock, expenses, store, fs, cu, rm, calls, rejects>>

\* ------------------------------------------------------------- specifications
\* The capture a page may have attached to the record it passes
Captures == {Null} \cup {captureExpenseReceipt(k) : k \in Photos}

\* The steps of the calls in progress
Step ==
    \/ CU_ReadDone
    \/ CU_WriteDone
    \/ CU_StoreDone
    \/ CU_Return
    \/ RM_StoreDone
    \/ RM_DeleteFileDone
    \/ RM_Return
    \/ L_InitDone
    \/ L_ReadDone
    \/ L_ReadFileDone
    \/ L_Return

\* A collaborator call rejects
Reject ==
    \/ CU_Reject
    \/ RM_Reject
    \/ L_Reject

\* The page awaits each call before it makes the next one
Next ==
    \/ Step
    \/ Reject
    \/ AllIdle /\ L_Call
    \/ AllIdle /\ \E o \in Obj, tp \in Captures, now \in {clock, clock + 1} \cap (1..MaxClock) : CU_Call(o, tp, now)
    \/ AllIdle /\ \E position \in 0..(MaxRecords - 1) : RM_Call(position)

Spec == Init /\ [][Next]_vars

\* Calls overlap at their awaits, each on a record of its own, and no
\* collaborator call is made to fail
NextOverlap ==
    \/ Step
    \/ L_Call
    \/ \E o \in Obj, tp \in Captures, now \in {clock, clock + 1} \cap (1..MaxClock) : CU_Call(o, tp, now)
    \/ \E position \in 0..(MaxRecords - 1) : RM_Call(position)

SpecOverlap == Init /\ [][NextOverlap]_vars

\* ------------------------------------------------------------- properties
\* '<id>.jpeg' for the identifier the record has now
JpegOf(o) == <<ToString(obj[o].id), ".jpeg">>

\* C1: a createUpdateExpense call on a record with a pending capture never
\* issues more than one writeFile, and when it returns the receipt has a
\* filePath and a webviewPath, its tempPath is null, and exactly one writeFile
\* was issued, for the path '<id>.jpeg' of the identifier the record now has.
C1_PendingCaptureSaved ==
    /\ cu.nWrite <= 1
    /\ (cu.pc = "returned" /\ cu.rec0.tempPath # Null) =>
          /\ obj[cu.e].filePath # Null
          /\ obj[cu.e].webviewPath # Null
          /\ obj[cu.e].tempPath = Null
          /\ cu.nWrite = 1
          /\ obj[cu.e].id # NoId
          /\ cu.path = JpegOf(cu.e)

\* C1 happens for an existing record that is given a new capture
C1_Witness ==
    /\ cu.pc = "returned"
    /\ cu.rec0.tempPath # Null
    /\ cu.rec0.id # NoId
    /\ cu.nWrite = 1
    /\ clock # cu.rec0.id

\* C2: when createUpdateExpense returns for a record that came without an
\* identifier, the record has the identifier generated at the call, the list
\* is the record followed by the list as it was, and one createExpense and no
\* updateExpense was called; for a record that came with an identifier the
\* list is as it was, the identifier is kept, and one updateExpense and no
\* createExpense was called.
C2_CreateOrUpdate ==
    cu.pc = "returned" =>
        IF cu.rec0.id = NoId
        THEN /\ obj[cu.e].id = clock
             /\ obj[cu.e].id # NoId
             /\ expenses = <<cu.e>> \o cu.list0
             /\ cu.nCreate = 1
             /\ cu.nUpdate = 0
        ELSE /\ obj[cu.e].id = cu.rec0.id
             /\ expenses = cu.list0
             /\ cu.nCreate = 0
             /\ cu.nUpdate = 1

\* C2 happens for a new record put in front of two earlier ones
C2_Witness ==
    /\ cu.pc = "returned"
    /\ cu.rec0.id = NoId
    /\ Len(cu.list0) = 2
    /\ Len(expenses) = 3

\* C3: from the call of removeExpense(e, p) on, the list is one shorter than it
\* was, e is the record that was at p, e is no longer in the list, and the
\* other records are in the order they had.
C3_RemoveAtPosition ==
    rm.pc # "idle" =>
        /\ Len(expenses) = Len(rm.list0) - 1
        /\ rm.e = rm.list0[rm.position + 1]
        /\ rm.e \notin Range(expenses)
        /\ \A i \in 1..Len(expenses) :
              expenses[i] = IF i <= rm.position THEN rm.list0[i] ELSE rm.list0[i + 1]

\* C3 happens for the middle record of three
C3_Witness ==
    /\ rm.pc = "returned"
    /\ Len(rm.list0) = 3
    /\ rm.position = 1

\* C4: a removeExpense call issues at most one deleteFile, only once
\* deleteExpense has resolved, and for the path receipt.name; when the call
\* got past deleteExpense it has issued exactly one for a record with a name,
\* and a call on a record without a name issues none.
C4_DeleteFileCalls ==
    rm.pc # "idle" =>
        /\ rm.nDelete <= 1
        /\ rm.nDelete = 1 => (rm.storeDone /\ rm.path = obj[rm.e].name)
        /\ (rm.storeDone /\ obj[rm.e].name # Null) => rm.nDelete = 1
        /\ obj[rm.e].name = Null => rm.nDelete = 0
        /\ ~rm.storeDone => rm.nDelete = 0

\* C4 happens when a record with a saved receipt has been removed
C4_Witness ==
    /\ rm.pc = "returned"
    /\ rm.nDelete = 1
    /\ obj[rm.e].filePath # Null
    /\ ~FsExists(fs, rm.path)

\* C4 also happens for a record without a receipt name
C4_WitnessNoName ==
    /\ rm.pc = "returned"
    /\ obj[rm.e].name = Null

\* C5: for every record of the in-memory list, getExpense of its identifier
\* returns that record and no other.
C5_LookupUnique ==
    \A i \in 1..Len(expenses) : getExpense(obj[expenses[i]].id) = expenses[i]

\* The first token of a data URL
IsDataUrl(path) == Len(path) >= 1 /\ path[1] = "data:image/jpeg;base64,"

\* The records of the list that have a persisted reference
WithFilePath == {i \in 1..Len(expenses) : obj[expenses[i]].filePath # Null}

\* C6 as stated: when loadSaved returns, the list is what the Record Store
\* returned and is the result; in the browser every loaded record's webviewPath
\* is a data URL, elsewhere no webviewPath has changed and no readFile was made.
C6_EveryRecordRewritten ==
    ld.pc = "returned" =>
        /\ expenses = ld.read0
        /\ ld.result = expenses
        /\ IF platform = "web"
           THEN \A o \in Range(expenses) : IsDataUrl(obj[o].webviewPath)
           ELSE /\ ld.nRead = 0
                /\ \A o \in Range(expenses) : obj[o].webviewPath = ld.wv0[o]

\* C6 as amended: when loadSaved returns, the list is what the Record Store
\* returned and is the result; in the browser every loaded record with a
\* filePath has the data URL of that file's data as webviewPath, with one
\* readFile each, and a loaded record without a filePath keeps its webviewPath;
\* elsewhere no readFile is ever made and no webviewPath has changed.
C6_RecordsWithFileRewritten ==
    /\ platform # "web" => ld.nRead = 0
    /\ ld.pc = "returned" =>
        /\ expenses = ld.read0
        /\ expenses = store
        /\ ld.result = expenses
        /\ IF platform = "web"
           THEN /\ ld.nRead = Cardinality(WithFilePath)
                /\ \A o \in Range(expenses) :
                      IF obj[o].filePath # Null
                      THEN /\ FsExists(fs, obj[o].filePath)
                           /\ obj[o].webviewPath =
                                 <<"data:image/jpeg;base64,">> \o FsRead(fs, obj[o].filePath)
                      ELSE obj[o].webviewPath = ld.wv0[o]
           ELSE \A o \in Range(expenses) : obj[o].webviewPath = ld.wv0[o]

\* C6 happens in the browser with a record that has a picture and one that has none
C6_Witness ==
    /\ ld.pc = "returned"
    /\ platform = "web"
    /\ ld.nRead >= 1
    /\ \E o \in Range(expenses) : obj[o].filePath = Null
    /\ \E o \in Range(expenses) : IsDataUrl(obj[o].webviewPath) /\ ld.wv0[o] # obj[o].webviewPath

\* C7: when createUpdateExpense returns for a record that had a pending
\* capture, on a device filePath is the uri writeFile returned and webviewPath
\* is convertFileSrc of it; in the browser filePath is '<id>.jpeg' and
\* webviewPath is the tempPath the record came with.
C7_ReferencesByPlatform ==
    (cu.pc = "returned" /\ cu.rec0.tempPath # Null) =>
        IF platform # "web"
        THEN /\ cu.uri # Null
             /\ obj[cu.e].filePath = cu.uri
             /\ obj[cu.e].webviewPath = <<"http://localhost/_capacitor_file_">> \o cu.uri
        ELSE /\ obj[cu.e].filePath = JpegOf(cu.e)
             /\ obj[cu.e].webviewPath = cu.rec0.tempPath

\* C7 happens in the browser for a new record
C7_Witness ==
    /\ cu.pc = "returned"
    /\ cu.rec0.tempPath # Null
    /\ cu.rec0.id = NoId
    /\ platform = "web"

\* C8: when removeExpense is rejected the record is out of the list; rejected
\* by deleteExpense, no deleteFile was issued and the Record Store is as it
\* was; rejected by deleteFile, deleteExpense had resolved, the record is in
\* neither the list nor the Record Store, and the files are those there were.
C8_NoRollback ==
    rm.pc = "rejected" =>
        /\ rm.e \notin Range(expenses)
        /\ Len(expenses) = Len(rm.list0) - 1
        /\ rm.at = "deleteExpense" => (rm.nDelete = 0 /\ ~rm.storeDone /\ fs = rm.fs0)
        /\ rm.at = "deleteFile" =>
              /\ rm.storeDone
              /\ rm.nDelete = 1
              /\ rm.e \notin Range(store)
              /\ fs = rm.fs0

\* C8 happens when deleteFile is rejected with the receipt file on disk
C8_Witness ==
    /\ rm.pc = "rejected"
    /\ rm.at = "deleteFile"
    /\ FsExists(fs, rm.path)

\* C8 also happens when deleteExpense is rejected
C8_WitnessStore ==
    /\ rm.pc = "rejected"
    /\ rm.at = "deleteExpense"
    /\ rm.e \in Range(store)

\* C9: when createUpdateExpense is rejected by the photo read or by writeFile,
\* the list is as it was, no Record Store call was made, the record's
\* identifier is the one it came with (none for a new record) and its tempPath
\* is still set; rejected by createExpense, the record is first in the list and
\* has its generated identifier. A call on a record that is already in the
\* list never makes a createExpense call or lengthens the list.
C9_RejectedCreateUpdate ==
    /\ (cu.pc = "rejected" /\ cu.at \in {"readAsBase64", "writeFile"}) =>
          /\ expenses = cu.list0
          /\ cu.nCreate = 0
          /\ cu.nUpdate = 0
          /\ obj[cu.e].id = cu.rec0.id
          /\ obj[cu.e].tempPath # Null
          /\ obj[cu.e].tempPath = cu.rec0.tempPath
    /\ (cu.pc = "rejected" /\ cu.at = "createExpense") =>
          /\ cu.rec0.id = NoId
          /\ Len(expenses) >= 1
          /\ expenses[1] = cu.e
          /\ obj[cu.e].id # NoId
          /\ obj[cu.e].id = clock
    /\ (cu.pc # "idle" /\ cu.e \in Range(cu.list0)) =>
          /\ cu.nCreate = 0
          /\ expenses = cu.list0

\* C9 happens when writeFile is rejected for a new record
C9_Witness ==
    /\ cu.pc = "rejected"
    /\ cu.at = "writeFile"
    /\ cu.rec0.id = NoId

\* C9 also happens when the record a rejected createExpense left in the list is
\* passed again
C9_WitnessRetry ==
    /\ cu.pc = "updateExpense"
    /\ cu.e \in Range(expenses)
    /\ cu.e \notin Range(store)
    /\ rejects = 1

\* C10: once no call is in progress, the in-memory list is the list the Record
\* Store holds.
C10_Mirror ==
    (\A pc \in {ld.pc, cu.pc, rm.pc} : pc \in {"idle", "returned"}) => expenses = store

====
